---- MODULE Spec2Model ----
(***************************************************************************)
(* A model of src/caffe/util/math_functions.cpp: the dtype-polymorphic     *)
(* numeric primitives of Caffe (storage type Dtype, compute type Mtype).   *)
(*                                                                         *)
(* Numbers.  The compute type (float) is modelled by the integers: one     *)
(* unit is one float ulp, so nextafter(b) is b + 1 and float arithmetic on *)
(* the small values used here is exact.  The reduced-precision storage     *)
(* type (half) is modelled by the integers that have at most three         *)
(* significant bits (0..8, 10, 12, 14, 16, 20, ...): converting a float to *)
(* half rounds to the nearest such value, ties to even, and converting a   *)
(* half to float is exact.                                                 *)
(*                                                                         *)
(* Memory.  A pointer is the base address of a caller-owned buffer; the    *)
(* buffers are disjoint allocations of BufLen elements each, and the null  *)
(* pointer is address Null.                                                *)
(***************************************************************************)
EXTENDS Integers, Sequences, FiniteSets, TLC

VARIABLES
    mem,        \* address -> sequence of elements (caller-owned buffers)
    raw,        \* [dt, bytes]: one typed buffer seen as bytes (caffe_set)
    rng,        \* state of the process-wide generator *caffe_rng()
    mode,       \* Caffe::mode(): "CPU" or "GPU"
    cpu_only,   \* TRUE when the build defines CPU_ONLY
    status,     \* "idle", "returned", "fatal" (LOG(FATAL) / failed CHECK), "segv"
    last,       \* the call just made: its name and arguments (and result)
    pre_mem,    \* mem as it was when the last call was entered
    pre_raw,    \* raw as it was when the last call was entered
    pre_rng,    \* rng as it was when the last call was entered
    thr,        \* thread -> the call it runs and how far it got (concurrent calls)
    tmp         \* slot -> the temporary float vectors a, b, c of a gemm in progress

vars == <<mem, raw, rng, mode, cpu_only, status, last, pre_mem, pre_raw, pre_rng, thr, tmp>>

----------------------------------------------------------------------------
(* Bounds of the model *)

MaxDim  == 2    \* largest matrix dimension M, N, K
MaxSeed == 2    \* buffers start as one of MaxSeed + 1 contents
MaxVal  == 12   \* initial elements are the half values of -MaxVal..MaxVal

BufLen == MaxDim * MaxDim           \* elements in every caller buffer
Counts == -1 .. BufLen              \* element counts tried, one of them negative
Dims   == -1 .. MaxDim              \* matrix dimensions tried
Coefs  == {-1, 0, 2}                \* alpha, beta
Bufs   == {1, 2, 3}                 \* addresses of the caller's buffers

Null == 0                           \* the null pointer

----------------------------------------------------------------------------
(* Precision conversion: Get<float>(half) and Get<half>(float) *)

Abs(v) == IF v < 0 THEN -v ELSE v

RECURSIVE HalfUlp(_)
\* spacing of the half values around magnitude m (three significant bits)
HalfUlp(m) == IF m < 8 THEN 1 ELSE 2 * HalfUlp(m \div 2)

\* Get<half>(float): round to nearest representable value, ties to even
RoundMag(m) ==
    LET st   == HalfUlp(m)
        q    == m \div st
        r    == m % st
        down == q * st
    IN  IF 2 * r < st THEN down
        ELSE IF 2 * r > st THEN down + st
        ELSE IF q % 2 = 0 THEN down ELSE down + st

ToHalf(v) == IF v < 0 THEN -RoundMag(-v) ELSE RoundMag(v)

\* Get<float>(half): exact
ToFloat(h) == h

\* Get<Dtype>(Mtype value) for the instantiated storage types
Get(dt, v) == IF dt = "half" THEN ToHalf(v) ELSE v

IsHalf(v) == ToHalf(v) = v

----------------------------------------------------------------------------
(* The shared generator *)

RngMod == 16

\* one step of the engine; the engine's output is its new state
NextRng(s) == (5 * s + 3) % RngMod

RECURSIVE Advance(_, _)
\* the engine after k draws
Advance(s, k) == IF k <= 0 THEN s ELSE Advance(NextRng(s), k - 1)

----------------------------------------------------------------------------
(* Initial contents *)

\* the s-th initial content of a buffer: half values, not symmetric
Vec(s) == [i \in 1..BufLen |->
              ToHalf((((s + 1) * 3 * i + 5 * s) % (2 * MaxVal + 1)) - MaxVal)]

\* the s-th initial memory image: its buffers differ from each other
Image(s) == [b \in Bufs |-> Vec((s + b) % (MaxSeed + 1))]

Images == { Image(s) : s \in 0..MaxSeed }

\* the state the generator is found in, one per image
SeedRng(s) == (7 * s) % RngMod

NoCall == [op |-> "none"]
NoRaw  == [dt |-> "none", bytes |-> <<>>]
NoThr  == <<>>

----------------------------------------------------------------------------
(* Memory transfer: caffe_copy *)

\* memcpy(Y, X, sizeof(Dtype) * N) for 0 <= N <= BufLen, X and Y disjoint
Memcpy(m, Y, X, N) ==
    [m EXCEPT ![Y] = [i \in 1..BufLen |-> IF i <= N THEN m[X][i] ELSE m[Y][i]]]

\* What caffe_copy does: the set of outcomes <<memory, status>>.
\* sizeof(Dtype) * N with N < 0 wraps to a huge size_t: the copy runs off the
\* buffers and the process dies after some prefix was copied.
CopyBytes(m, N, X, Y) ==
    IF N >= 0
    THEN { <<Memcpy(m, Y, X, N), "returned">> }
    ELSE { <<Memcpy(m, Y, X, k), "segv">> : k \in 0..BufLen }

\* caffe_copy without the X != Y test
caffe_copy_no_self_test(m, md, cpuonly, N, X, Y) ==
    IF md = "GPU"
    THEN IF ~cpuonly
         THEN CopyBytes(m, N, X, Y) \cup { <<m, "fatal">> }
         ELSE { <<m, "fatal">> }
    ELSE CopyBytes(m, N, X, Y)

\* caffe_copy degrading to the host copy where the build has no GPU
caffe_copy_host_fallback(m, md, cpuonly, N, X, Y) ==
    IF X # Y
    THEN IF md = "GPU" /\ ~cpuonly
         THEN CopyBytes(m, N, X, Y) \cup { <<m, "fatal">> }
         ELSE CopyBytes(m, N, X, Y)
    ELSE { <<m, "returned">> }

caffe_copy(m, md, cpuonly, N, X, Y) ==
    IF X # Y
    THEN IF md = "GPU"
         THEN IF ~cpuonly
              THEN \* CUDA_CHECK(cudaMemcpy(...)): the copy, or a CUDA error
                   CopyBytes(m, N, X, Y) \cup { <<m, "fatal">> }
              ELSE \* NO_GPU
                   { <<m, "fatal">> }
         ELSE CopyBytes(m, N, X, Y)
    ELSE { <<m, "returned">> }

\* A call ends: the new memory, generator and status, and the record of the call.
Finish(m2, r2, st, rec) ==
    /\ mem' = m2
    /\ rng' = r2
    /\ status' = st
    /\ last' = rec
    /\ pre_mem' = mem
    /\ pre_rng' = rng
    /\ pre_raw' = raw
    /\ UNCHANGED <<raw, mode, cpu_only, thr, tmp>>

\* The same for a call on the byte-level buffer, entered with contents raw0.
FinishRaw(raw0, raw2, st, rec) ==
    /\ raw' = raw2
    /\ pre_raw' = raw0
    /\ status' = st
    /\ last' = rec
    /\ pre_mem' = mem
    /\ pre_rng' = rng
    /\ UNCHANGED <<mem, rng, mode, cpu_only, thr, tmp>>

Call_copy ==
    /\ status = "idle"
    /\ \E N \in Counts, X \in Bufs, Y \in Bufs :
         \E out \in caffe_copy(mem, mode, cpu_only, N, X, Y) :
            Finish(out[1], rng, out[2], [op |-> "copy", n |-> N, X |-> X, Y |-> Y])

----------------------------------------------------------------------------
(* Elementwise operations, reduced-precision instantiations <half,float>.  *)
(* Each definition is the body of the loop for index i (0-based as in the  *)
(* source; sequences are 1-based).  p holds the arguments of the call.     *)

\* Y[i] = Get<half>( alpha * Get<float>(X[i]) + Get<float>(Y[i]) )
caffe_axpy_half(m, p, i) ==
    [m EXCEPT ![p.Y][i + 1] =
        ToHalf(p.alpha * ToFloat(m[p.X][i + 1]) + ToFloat(m[p.Y][i + 1]))]

\* Y[i] = Get<half>( Get<float>(Y[i]) + alpha )
caffe_add_scalar_half(m, p, i) ==
    [m EXCEPT ![p.Y][i + 1] = ToHalf(ToFloat(m[p.Y][i + 1]) + p.alpha)]

\* X[i] = Get<half>( alpha * Get<float>(X[i]) )
caffe_scal_half(m, p, i) ==
    [m EXCEPT ![p.X][i + 1] = ToHalf(p.alpha * ToFloat(m[p.X][i + 1]))]

\* Y[i] = Get<half>( alpha * Get<float>(X[i]) + beta * Get<float>(Y[i]) )
caffe_cpu_axpby_half(m, p, i) ==
    [m EXCEPT ![p.Y][i + 1] =
        ToHalf(p.alpha * ToFloat(m[p.X][i + 1]) + p.beta * ToFloat(m[p.Y][i + 1]))]

\* y[i] = Get<half>( Get<float>(a[i]) + Get<float>(b[i]) )
caffe_add_half(m, p, i) ==
    [m EXCEPT ![p.y][i + 1] = ToHalf(ToFloat(m[p.a][i + 1]) + ToFloat(m[p.b][i + 1]))]

\* y[i] = Get<half>( Get<float>(a[i]) - Get<float>(b[i]) )
caffe_sub_half(m, p, i) ==
    [m EXCEPT ![p.y][i + 1] = ToHalf(ToFloat(m[p.a][i + 1]) - ToFloat(m[p.b][i + 1]))]

\* y[i] = Get<half>( Get<float>(a[i]) * Get<float>(b[i]) )
caffe_mul_half(m, p, i) ==
    [m EXCEPT ![p.y][i + 1] = ToHalf(ToFloat(m[p.a][i + 1]) * ToFloat(m[p.b][i + 1]))]

\* f = Get<float>(a[i]); y[i] = Get<half>(f * f)
caffe_sqr_half(m, p, i) ==
    LET f == ToFloat(m[p.a][i + 1])
    IN  [m EXCEPT ![p.y][i + 1] = ToHalf(f * f)]

\* y[i] = Get<half>( fabs(Get<float>(a[i])) )
caffe_abs_half(m, p, i) ==
    [m EXCEPT ![p.y][i + 1] = ToHalf(Abs(ToFloat(m[p.a][i + 1])))]

\* y[i] = Get<half>( alpha * Get<float>(x[i]) )
caffe_cpu_scale_half(m, p, i) ==
    [m EXCEPT ![p.y][i + 1] = ToHalf(p.alpha * ToFloat(m[p.x][i + 1]))]

ElemBody(op, m, p, i) ==
    CASE op = "axpy"       -> caffe_axpy_half(m, p, i)
      [] op = "add_scalar" -> caffe_add_scalar_half(m, p, i)
      [] op = "scal"       -> caffe_scal_half(m, p, i)
      [] op = "axpby"      -> caffe_cpu_axpby_half(m, p, i)
      [] op = "add"        -> caffe_add_half(m, p, i)
      [] op = "sub"        -> caffe_sub_half(m, p, i)
      [] op = "mul"        -> caffe_mul_half(m, p, i)
      [] op = "sqr"        -> caffe_sqr_half(m, p, i)
      [] op = "abs"        -> caffe_abs_half(m, p, i)
      [] op = "scale"      -> caffe_cpu_scale_half(m, p, i)

RECURSIVE ForLoop(_, _, _, _)
\* for (int i = i0; i < n; i++) body: with n <= i0 no iteration runs
ForLoop(op, m, p, i) ==
    IF i < p.n THEN ForLoop(op, ElemBody(op, m, p, i), p, i + 1) ELSE m

\* The whole call of an elementwise operation: the loop, then a normal return.
Elementwise(op, p) ==
    /\ status = "idle"
    /\ ~cpu_only             \* the <half,float> bodies are compiled #ifndef CPU_ONLY
    /\ Finish(ForLoop(op, mem, p, 0), rng, "returned", p)

Call_add_scalar ==
    \E N \in Counts, al \in Coefs, Y \in Bufs :
        Elementwise("add_scalar", [op |-> "add_scalar", n |-> N, alpha |-> al, Y |-> Y])

Call_scal ==
    \E N \in Counts, al \in Coefs, X \in Bufs :
        Elementwise("scal", [op |-> "scal", n |-> N, alpha |-> al, X |-> X])

Call_axpy ==
    \E N \in Counts, al \in Coefs, X \in Bufs, Y \in Bufs :
        Elementwise("axpy", [op |-> "axpy", n |-> N, alpha |-> al, X |-> X, Y |-> Y])

Call_axpby ==
    \E N \in Counts, al \in Coefs, be \in Coefs, X \in Bufs, Y \in Bufs :
        Elementwise("axpby", [op |-> "axpby", n |-> N, alpha |-> al, beta |-> be,
                              X |-> X, Y |-> Y])

Call_scale ==
    \E N \in Counts, al \in Coefs, x \in Bufs, y \in Bufs :
        Elementwise("scale", [op |-> "scale", n |-> N, alpha |-> al, x |-> x, y |-> y])

Call_binary ==
    \E op \in {"add", "sub", "mul"}, N \in Counts, a \in Bufs, b \in Bufs, y \in Bufs :
        Elementwise(op, [op |-> op, n |-> N, a |-> a, b |-> b, y |-> y])

Call_unary ==
    \E op \in {"sqr", "abs"}, N \in Counts, a \in Bufs, y \in Bufs :
        Elementwise(op, [op |-> op, n |-> N, a |-> a, y |-> y])

----------------------------------------------------------------------------
(* Reductions, reduced-precision instantiations <half,float> *)

RECURSIVE strided_dot_half(_, _, _, _, _, _, _)
\* sum += Get<float>(x[i*incx]) * Get<float>(y[i*incy]), for i = i0 .. n-1
strided_dot_half(m, n, x, incx, y, incy, i) ==
    IF i < n
    THEN ToFloat(m[x][i * incx + 1]) * ToFloat(m[y][i * incy + 1])
         + strided_dot_half(m, n, x, incx, y, incy, i + 1)
    ELSE 0

\* caffe_cpu_dot is caffe_cpu_strided_dot with unit strides
caffe_cpu_dot_half(m, n, x, y) == strided_dot_half(m, n, x, 1, y, 1, 0)

RECURSIVE caffe_cpu_asum_half(_, _, _, _)
\* sum += fabs(Get<float>(x[i]))
caffe_cpu_asum_half(m, n, x, i) ==
    IF i < n THEN Abs(ToFloat(m[x][i + 1])) + caffe_cpu_asum_half(m, n, x, i + 1) ELSE 0

RECURSIVE PopcountXor(_, _)
\* __builtin_popcount(a ^ b) for a, b >= 0
PopcountXor(a, b) ==
    IF a = 0 /\ b = 0 THEN 0
    ELSE (IF a % 2 # b % 2 THEN 1 ELSE 0) + PopcountXor(a \div 2, b \div 2)

\* static_cast<uint16_t>(float): truncation; of a negative value it is undefined,
\* and a build either wraps it or saturates it to 0
CastU16(v, cast) ==
    IF v >= 0 \/ cast = "wrap" THEN v % 65536 ELSE 0

RECURSIVE hamming_distance_half(_, _, _, _, _, _)
hamming_distance_half(m, n, x, y, cast, i) ==
    IF i < n
    THEN PopcountXor(CastU16(ToFloat(m[x][i + 1]), cast), CastU16(ToFloat(m[y][i + 1]), cast))
         + hamming_distance_half(m, n, x, y, cast, i + 1)
    ELSE 0

Call_dot ==
    /\ status = "idle"
    /\ ~cpu_only
    /\ \E N \in Counts, x \in Bufs, y \in Bufs, incx \in {1, 2}, incy \in {1, 2} :
         /\ (N - 1) * incx < BufLen
         /\ (N - 1) * incy < BufLen
         /\ Finish(mem, rng, "returned",
                   [op |-> "dot", n |-> N, x |-> x, y |-> y, incx |-> incx, incy |-> incy,
                    ret |-> strided_dot_half(mem, N, x, incx, y, incy, 0)])

Call_asum ==
    /\ status = "idle"
    /\ ~cpu_only
    /\ \E N \in Counts, x \in Bufs :
         Finish(mem, rng, "returned",
                [op |-> "asum", n |-> N, x |-> x, ret |-> caffe_cpu_asum_half(mem, N, x, 0)])

Call_hamming ==
    /\ status = "idle"
    /\ ~cpu_only
    /\ \E N \in Counts, x \in Bufs, y \in Bufs, cast \in {"wrap", "saturate"} :
         Finish(mem, rng, "returned",
                [op |-> "hamming", n |-> N, x |-> x, y |-> y,
                 ret |-> hamming_distance_half(mem, N, x, y, cast, 0)])

----------------------------------------------------------------------------
(* Random sampling *)

\* the upper bound nudged one value too far
caffe_nextafter_twice(b) == b + 2

\* caffe_nextafter<Mtype>(b): the smallest compute-type value above b
caffe_nextafter(b) == b + 1

\* boost::uniform_real<Mtype>(lo, hi) on engine output u: a value of [lo, hi)
UniformSample(lo, hi, u) == lo + ((u * (hi - lo)) \div RngMod)

\* boost::normal_distribution<Mtype>(mean, sigma) on engine output u
GaussianSample(mean, sigma, u) == mean + sigma * ((u % 5) - 2)

\* boost::bernoulli_distribution<Mtype>(p) on engine output u; p2 is 2 * p
BernoulliSample(p2, u) == IF 2 * u < p2 * RngMod THEN 1 ELSE 0

\* variate_generator(): one draw from the shared engine through the distribution
Variate(p, u) ==
    CASE p.op = "uniform"   -> UniformSample(p.a, caffe_nextafter(p.b), u)
      [] p.op = "gaussian"  -> GaussianSample(p.a, p.sigma, u)
      [] p.op = "bernoulli" -> BernoulliSample(p.p2, u)

RECURSIVE SampleLoop(_, _, _, _)
\* for (i = i0; i < n; ++i) r[i] = Get<Dtype>(variate_generator());
\* the result is <<memory, generator>>
SampleLoop(m, g, p, i) ==
    IF i < p.n
    THEN LET u == NextRng(g)
         IN  SampleLoop([m EXCEPT ![p.r][i + 1] = Get(p.dt, Variate(p, u))], u, p, i + 1)
    ELSE <<m, g>>

\* The CHECKs at the head of each sampler, in source order; a failed CHECK is fatal.
uniform_checks(p)   == p.n >= 0 /\ p.r # Null /\ p.a <= p.b
\* CHECK_GE(sigma, 0) in place of CHECK_GT(sigma, 0)
gaussian_checks_ge(p) == p.n >= 0 /\ p.r # Null /\ p.sigma >= 0
gaussian_checks(p)  == p.n >= 0 /\ p.r # Null /\ p.sigma > 0
bernoulli_checks(p) == p.n >= 0 /\ p.r # Null /\ p.p2 >= 0 /\ p.p2 <= 2

\* The whole call of a sampler: <<memory, generator, status>>
Sampler(m, g, p, checks) ==
    IF checks
    THEN LET out == SampleLoop(m, g, p, 0) IN <<out[1], out[2], "returned">>
    ELSE <<m, g, "fatal">>

\* a sampler drawing from an engine of its own, which it puts in place of the
\* shared one
caffe_rng_uniform_own_engine(m, g, p) == Sampler(m, 0, p, uniform_checks(p))

caffe_rng_uniform(m, g, p)   == Sampler(m, g, p, uniform_checks(p))
caffe_rng_gaussian(m, g, p)  == Sampler(m, g, p, gaussian_checks(p))
caffe_rng_bernoulli(m, g, p) == Sampler(m, g, p, bernoulli_checks(p))

Ptrs       == Bufs \cup {Null}
Dtypes     == {"float", "half"}
UniformArg == {6, 9, 10}
SigmaArg   == {-1, 0, 1, 2}
ProbArg    == {-1, 0, 1, 2, 3}      \* 2 * p

Call_rng_uniform ==
    /\ status = "idle"
    /\ \E N \in Counts, a \in UniformArg, b \in UniformArg, r \in Ptrs, dt \in Dtypes :
         /\ dt = "half" => ~cpu_only
         /\ LET p   == [op |-> "uniform", n |-> N, a |-> a, b |-> b, r |-> r, dt |-> dt]
                out == caffe_rng_uniform(mem, rng, p)
            IN  Finish(out[1], out[2], out[3], p)

Call_rng_gaussian ==
    /\ status = "idle"
    /\ \E N \in Counts, a \in {0, 9}, sigma \in SigmaArg, r \in Ptrs, dt \in Dtypes :
         /\ dt = "half" => ~cpu_only
         /\ LET p   == [op |-> "gaussian", n |-> N, a |-> a, sigma |-> sigma, r |-> r,
                        dt |-> dt]
                out == caffe_rng_gaussian(mem, rng, p)
            IN  Finish(out[1], out[2], out[3], p)

\* both output widths (int* and unsigned int*) run the same body
Call_rng_bernoulli ==
    /\ status = "idle"
    /\ \E N \in Counts, p2 \in ProbArg, r \in Ptrs, dt \in {"int", "unsigned"} :
         LET p   == [op |-> "bernoulli", n |-> N, p2 |-> p2, r |-> r, dt |-> dt]
             out == caffe_rng_bernoulli(mem, rng, p)
         IN  Finish(out[1], out[2], out[3], p)

\* unsigned int caffe_rng_rand() { return (*caffe_rng())(); }
Call_rng_rand ==
    /\ status = "idle"
    /\ Finish(mem, NextRng(rng), "returned", [op |-> "rand", ret |-> NextRng(rng)])

----------------------------------------------------------------------------
(* Dense linear algebra, reduced-precision instantiations <half,float> *)

\* caffe_cpu_convert(n, src, dst) from half to float: a fresh float vector
ConvertToFloat(n, src) == [i \in 1..n |-> ToFloat(src[i])]

\* caffe_cpu_convert(n, src, dst) from float to half: the first n elements of dst
ConvertToHalf(n, src, dst) ==
    [i \in 1..Len(dst) |-> IF i <= n THEN ToHalf(src[i]) ELSE dst[i]]

RECURSIVE SumTo(_, _, _)
\* term(0) + ... + term(n-1), term given as a sequence indexed from 1
SumTo(term, k, n) == IF k < n THEN term[k + 1] + SumTo(term, k + 1, n) ELSE 0

\* cblas_sgemm(CblasRowMajor, TransA, TransB, M, N, K, alpha, a, lda, b, ldb,
\*             beta, c, ldc): the new contents of c
cblas_sgemm(TransA, TransB, M, N, K, alpha, a, lda, b, ldb, beta, c, ldc) ==
    LET opA(i, k) == IF TransA = "NoTrans" THEN a[i * lda + k + 1] ELSE a[k * lda + i + 1]
        opB(k, j) == IF TransB = "NoTrans" THEN b[k * ldb + j + 1] ELSE b[j * ldb + k + 1]
        prod(i, j) == SumTo([k \in 1..K |-> opA(i, k - 1) * opB(k - 1, j)], 0, K)
    IN  [e \in 1..Len(c) |->
            LET i == (e - 1) \div ldc
                j == (e - 1) % ldc
            IN  IF i < M /\ j < N
                THEN alpha * prod(i, j) + beta * c[e]
                ELSE c[e]]

\* cblas_sgemv(CblasRowMajor, TransA, M, N, alpha, a, lda, x, 1, beta, y, 1):
\* the new contents of y
cblas_sgemv(TransA, M, N, alpha, a, lda, x, beta, y) ==
    IF TransA = "NoTrans"
    THEN [i \in 1..Len(y) |->
            IF i <= M
            THEN alpha * SumTo([j \in 1..N |-> a[(i - 1) * lda + j] * x[j]], 0, N)
                 + beta * y[i]
            ELSE y[i]]
    ELSE [j \in 1..Len(y) |->
            IF j <= N
            THEN alpha * SumTo([i \in 1..M |-> a[(i - 1) * lda + j] * x[i]], 0, M)
                 + beta * y[j]
            ELSE y[j]]

\* the temporaries with c left as the vector constructor zeroed it
gemm_temps_c_not_converted(m, p) ==
    [a |-> ConvertToFloat(p.M * p.K, m[p.A]),
     b |-> ConvertToFloat(p.K * p.N, m[p.B]),
     c |-> [i \in 1..(p.M * p.N) |-> 0]]

\* std::vector<float> a(M*K), b(K*N), c(M*N), filled by caffe_cpu_convert
gemm_temps(m, p) ==
    [a |-> ConvertToFloat(p.M * p.K, m[p.A]),
     b |-> ConvertToFloat(p.K * p.N, m[p.B]),
     c |-> ConvertToFloat(p.M * p.N, m[p.C])]

\* caffe_cpu_gemm<half,float>: the new memory
caffe_cpu_gemm_half(m, p) ==
    IF p.M <= 0 \/ p.N <= 0 \/ p.K <= 0
    THEN m
    ELSE LET t   == gemm_temps(m, p)
             lda == IF p.TransA = "NoTrans" THEN p.K ELSE p.M
             ldb == IF p.TransB = "NoTrans" THEN p.N ELSE p.K
             c2  == cblas_sgemm(p.TransA, p.TransB, p.M, p.N, p.K, p.alpha, t.a, lda,
                                t.b, ldb, p.beta, t.c, p.N)
         IN  [m EXCEPT ![p.C] = ConvertToHalf(p.M * p.N, c2, m[p.C])]

\* std::vector<float> a(M*N), xv(lx), yv(ly), filled by caffe_cpu_convert
gemv_temps(m, p) ==
    LET lx == IF p.TransA = "NoTrans" THEN p.N ELSE p.M
        ly == IF p.TransA = "NoTrans" THEN p.M ELSE p.N
    IN  [a  |-> ConvertToFloat(p.M * p.N, m[p.A]),
         xv |-> ConvertToFloat(lx, m[p.x]),
         yv |-> ConvertToFloat(ly, m[p.y])]

\* caffe_cpu_gemv<half,float> returning early only for M <= 0
caffe_cpu_gemv_half_no_N_test(m, p) ==
    IF p.M <= 0
    THEN m
    ELSE LET t  == gemv_temps(m, p)
             y2 == cblas_sgemv(p.TransA, p.M, p.N, p.alpha, t.a, p.N, t.xv, p.beta, t.yv)
         IN  [m EXCEPT ![p.y] = ConvertToHalf(Len(t.yv), y2, m[p.y])]

\* caffe_cpu_gemv<half,float>: the new memory
caffe_cpu_gemv_half(m, p) ==
    IF p.M <= 0 \/ p.N <= 0
    THEN m
    ELSE LET t  == gemv_temps(m, p)
             y2 == cblas_sgemv(p.TransA, p.M, p.N, p.alpha, t.a, p.N, t.xv, p.beta, t.yv)
         IN  [m EXCEPT ![p.y] = ConvertToHalf(Len(t.yv), y2, m[p.y])]

\* caffe_cpu_gemm<float,float>: the native path, on float buffers; the new C
caffe_cpu_gemm_float(TransA, TransB, M, N, K, alpha, A, B, beta, C) ==
    LET lda == IF TransA = "NoTrans" THEN K ELSE M
        ldb == IF TransB = "NoTrans" THEN N ELSE K
    IN  cblas_sgemm(TransA, TransB, M, N, K, alpha, A, lda, B, ldb, beta, C, N)

\* caffe_cpu_gemv<float,float>: the native path, on float buffers; the new y
caffe_cpu_gemv_float(TransA, M, N, alpha, A, x, beta, y) ==
    cblas_sgemv(TransA, M, N, alpha, A, N, x, beta, y)

Trans == {"NoTrans", "Trans"}

Call_gemm ==
    /\ status = "idle"
    /\ ~cpu_only
    /\ \E TA \in Trans, TB \in Trans, M \in Dims, N \in Dims, K \in Dims,
          al \in Coefs, be \in Coefs :
         LET p == [op |-> "gemm", TransA |-> TA, TransB |-> TB, M |-> M, N |-> N, K |-> K,
                   alpha |-> al, beta |-> be, A |-> 1, B |-> 2, C |-> 3]
         IN  Finish(caffe_cpu_gemm_half(mem, p), rng, "returned", p)

Call_gemv ==
    /\ status = "idle"
    /\ ~cpu_only
    /\ \E TA \in Trans, M \in Dims, N \in Dims, al \in Coefs, be \in Coefs :
         LET p == [op |-> "gemv", TransA |-> TA, M |-> M, N |-> N,
                   alpha |-> al, beta |-> be, A |-> 1, x |-> 2, y |-> 3]
         IN  Finish(caffe_cpu_gemv_half(mem, p), rng, "returned", p)

----------------------------------------------------------------------------
(* caffe_set, on the bytes of the buffer, for the four instantiated types *)

SetTypes == {"int", "float", "double", "half"}

\* sizeof(Dtype)
SizeOf(dt) ==
    CASE dt = "int"    -> 4
      [] dt = "float"  -> 4
      [] dt = "double" -> 8
      [] dt = "half"   -> 2

RECURSIVE Pow2(_)
Pow2(e) == IF e = 0 THEN 1 ELSE 2 * Pow2(e - 1)

RECURSIVE Log2(_)
Log2(v) == IF v <= 1 THEN 0 ELSE 1 + Log2(v \div 2)

\* The object representation (little-endian bytes) of the values 0 and +-2^e.
\* int: two's complement.  float, double, half: IEEE 754 binary32/64/16 with a
\* zero fraction, so only the two top bytes (sign, exponent) can be nonzero.
Encode(dt, v) ==
    IF dt = "int"
    THEN [k \in 1..4 |-> (v \div Pow2(8 * (k - 1))) % 256]
    ELSE LET sz    == SizeOf(dt)
             bias  == CASE dt = "float" -> 127 [] dt = "double" -> 1023 [] dt = "half" -> 15
             shift == CASE dt = "float" -> 7   [] dt = "double" -> 4    [] dt = "half" -> 10
             top   == IF v = 0 THEN 0
                      ELSE (IF v < 0 THEN 32768 ELSE 0) + (bias + Log2(Abs(v))) * Pow2(shift)
         IN  [k \in 1..sz |-> IF k = sz - 1 THEN top % 256
                              ELSE IF k = sz THEN top \div 256
                              ELSE 0]

\* the bytes of element i (0-based) of a buffer of type dt
ElemBytes(bytes, dt, i) == [k \in 1..SizeOf(dt) |-> bytes[i * SizeOf(dt) + k]]

\* Y[i] = value, as bytes
StoreElem(bytes, dt, i, v) ==
    [k \in 1..Len(bytes) |->
        IF k > i * SizeOf(dt) /\ k <= (i + 1) * SizeOf(dt)
        THEN Encode(dt, v)[k - i * SizeOf(dt)]
        ELSE bytes[k]]

\* the element count taken for the byte count
MemsetCount_elements(dt, N) == N

\* the byte count handed to memset: sizeof(Dtype) * N
MemsetCount(dt, N) == SizeOf(dt) * N

\* memset(Y, 0, count) for 0 <= count
Memset0(bytes, count) == [k \in 1..Len(bytes) |-> IF k <= count THEN 0 ELSE bytes[k]]

RECURSIVE SetLoop(_, _, _, _, _)
\* for (int i = i0; i < N; ++i) Y[i] = Get<Dtype>(alpha);
SetLoop(bytes, dt, N, alpha, i) ==
    IF i < N
    THEN SetLoop(StoreElem(bytes, dt, i, Get(dt, alpha)), dt, N, alpha, i + 1)
    ELSE bytes

\* caffe_set: the set of outcomes <<bytes, status>>.  A negative N makes the
\* memset count wrap to a huge size_t: memset runs off the buffer and the
\* process dies, some prefix of the buffer (here whole elements) zeroed.
caffe_set(bytes, dt, N, alpha) ==
    IF alpha = 0
    THEN IF N >= 0
         THEN { <<Memset0(bytes, MemsetCount(dt, N)), "returned">> }
         ELSE { <<Memset0(bytes, k * SizeOf(dt)), "segv">> : k \in 0..BufLen }
    ELSE { <<SetLoop(bytes, dt, N, alpha, 0), "returned">> }

\* a caller's buffer of BufLen elements of type dt, none of them zero
RawImage(dt, s) ==
    LET val(i) == CASE (i + s) % 3 = 0 -> 1 [] (i + s) % 3 = 1 -> 2 [] OTHER -> -1
    IN  [k \in 1..(BufLen * SizeOf(dt)) |->
            Encode(dt, val((k - 1) \div SizeOf(dt)))[((k - 1) % SizeOf(dt)) + 1]]

Call_set ==
    /\ status = "idle"
    /\ \E dt \in SetTypes, s \in 0..MaxSeed, N \in Counts, al \in Coefs :
         /\ dt = "half" => ~cpu_only
         /\ \E out \in caffe_set(RawImage(dt, s), dt, N, al) :
              FinishRaw([dt |-> dt, bytes |-> RawImage(dt, s)],
                        [dt |-> dt, bytes |-> out[1]], out[2],
                        [op |-> "set", n |-> N, alpha |-> al, dt |-> dt])

----------------------------------------------------------------------------

Init ==
    /\ \E s \in 0..MaxSeed :
          /\ mem = Image(s)
          /\ rng = SeedRng(s)
    /\ raw = NoRaw
    /\ mode \in {"CPU", "GPU"}
    /\ cpu_only \in BOOLEAN
    /\ status = "idle"
    /\ last = NoCall
    /\ pre_mem = mem
    /\ pre_raw = raw
    /\ pre_rng = rng
    /\ thr = NoThr
    /\ tmp = NoThr

Next ==
    \/ Call_copy
    \/ Call_add_scalar
    \/ Call_scal
    \/ Call_axpy
    \/ Call_axpby
    \/ Call_scale
    \/ Call_binary
    \/ Call_unary
    \/ Call_dot
    \/ Call_asum
    \/ Call_hamming
    \/ Call_rng_uniform
    \/ Call_rng_gaussian
    \/ Call_rng_bernoulli
    \/ Call_rng_rand
    \/ Call_gemm
    \/ Call_gemv
    \/ Call_set

Spec == Init /\ [][Next]_vars

----------------------------------------------------------------------------
(* Concurrent calls.  Two caller threads each run one non-sampling call; a  *)
(* step is one iteration of an elementwise loop, or one statement of the    *)
(* reduced-precision gemm (a conversion, the backend call, the write-back). *)
(* The layer takes no lock.                                                 *)

Threads == {1, 2}

\* temporaries kept in one static buffer shared by all calls
TmpSlot_static(t) == 1

\* where the temporaries of the gemm run by thread t live: they are locals of
\* the call, so each call has its own
TmpSlot(t) == t

\* the buffers a call reads and the buffers it writes
Reads(p) ==
    CASE p.op = "add"  -> {p.a, p.b}
      [] p.op = "axpy" -> {p.X, p.Y}
      [] p.op = "gemm" -> {p.A, p.B, p.C}

Writes(p) ==
    CASE p.op = "add"  -> {p.y}
      [] p.op = "axpy" -> {p.Y}
      [] p.op = "gemm" -> {p.C}

\* neither call writes a buffer the other reads or writes
NoConflict(p, q) ==
    /\ Writes(p) \cap (Reads(q) \cup Writes(q)) = {}
    /\ Writes(q) \cap (Reads(p) \cup Writes(p)) = {}

ConcCalls ==
    { [op |-> "add", n |-> MaxDim, a |-> a, b |-> b, y |-> y] :
          a \in Bufs, b \in Bufs, y \in Bufs }
    \cup { [op |-> "axpy", n |-> MaxDim, alpha |-> 2, X |-> X, Y |-> Y] :
          X \in Bufs, Y \in Bufs }
    \cup { [op |-> "gemm", TransA |-> TA, TransB |-> "NoTrans",
            M |-> MaxDim, N |-> MaxDim, K |-> MaxDim,
            alpha |-> 1, beta |-> 1, A |-> A, B |-> A, C |-> C] :
          TA \in Trans, A \in Bufs, C \in Bufs }

\* a whole call run alone, from memory m
RunCall(m, p) ==
    IF p.op = "gemm" THEN caffe_cpu_gemm_half(m, p) ELSE ForLoop(p.op, m, p, 0)

InitConc ==
    /\ mem \in Images
    /\ raw = NoRaw
    /\ rng = 0
    /\ mode = "CPU"
    /\ cpu_only = FALSE
    /\ status = "idle"
    /\ last = NoCall
    /\ pre_mem = mem
    /\ pre_raw = raw
    /\ pre_rng = rng
    /\ \E p1 \in ConcCalls, p2 \in ConcCalls :
          /\ NoConflict(p1, p2)
          /\ thr = [t \in Threads |->
                      [p  |-> IF t = 1 THEN p1 ELSE p2,
                       pc |-> IF (IF t = 1 THEN p1 ELSE p2).op = "gemm"
                              THEN "enter" ELSE "loop",
                       i  |-> 0]]
    /\ tmp = [k \in Threads |-> [a |-> <<>>, b |-> <<>>, c |-> <<>>]]

ConcFrame == UNCHANGED <<raw, rng, mode, cpu_only, status, last, pre_mem, pre_raw, pre_rng>>

\* one iteration of an elementwise loop
LoopStep(t) ==
    /\ thr[t].pc = "loop"
    /\ thr[t].i < thr[t].p.n
    /\ mem' = ElemBody(thr[t].p.op, mem, thr[t].p, thr[t].i)
    /\ thr' = [thr EXCEPT ![t].i = @ + 1]
    /\ UNCHANGED tmp
    /\ ConcFrame

\* the loop test fails: the call returns
LoopExit(t) ==
    /\ thr[t].pc = "loop"
    /\ thr[t].i >= thr[t].p.n
    /\ thr' = [thr EXCEPT ![t].pc = "done"]
    /\ UNCHANGED <<mem, tmp>>
    /\ ConcFrame

\* the test of the dimensions, then std::vector<float> a(M*K), b(K*N), c(M*N)
GemmEnter(t) ==
    /\ thr[t].pc = "enter"
    /\ LET p == thr[t].p
       IN  IF p.M <= 0 \/ p.N <= 0 \/ p.K <= 0
           THEN /\ thr' = [thr EXCEPT ![t].pc = "done"]
                /\ UNCHANGED tmp
           ELSE /\ thr' = [thr EXCEPT ![t].pc = "conv_a"]
                /\ tmp' = [tmp EXCEPT ![TmpSlot(t)] =
                              [a |-> [i \in 1..(p.M * p.K) |-> 0],
                               b |-> [i \in 1..(p.K * p.N) |-> 0],
                               c |-> [i \in 1..(p.M * p.N) |-> 0]]]
    /\ UNCHANGED mem
    /\ ConcFrame

\* caffe_cpu_convert of A, then of B, then of C into the temporaries
GemmConvert(t) ==
    /\ thr[t].pc \in {"conv_a", "conv_b", "conv_c"}
    /\ LET p == thr[t].p
           k == TmpSlot(t)
       IN  CASE thr[t].pc = "conv_a" ->
                  /\ tmp' = [tmp EXCEPT ![k].a = ConvertToFloat(p.M * p.K, mem[p.A])]
                  /\ thr' = [thr EXCEPT ![t].pc = "conv_b"]
             [] thr[t].pc = "conv_b" ->
                  /\ tmp' = [tmp EXCEPT ![k].b = ConvertToFloat(p.K * p.N, mem[p.B])]
                  /\ thr' = [thr EXCEPT ![t].pc = "conv_c"]
             [] thr[t].pc = "conv_c" ->
                  /\ tmp' = [tmp EXCEPT ![k].c = ConvertToFloat(p.M * p.N, mem[p.C])]
                  /\ thr' = [thr EXCEPT ![t].pc = "sgemm"]
    /\ UNCHANGED mem
    /\ ConcFrame

\* cblas_sgemm on the temporaries
GemmCompute(t) ==
    /\ thr[t].pc = "sgemm"
    /\ LET p   == thr[t].p
           k   == TmpSlot(t)
           lda == IF p.TransA = "NoTrans" THEN p.K ELSE p.M
           ldb == IF p.TransB = "NoTrans" THEN p.N ELSE p.K
       IN  tmp' = [tmp EXCEPT ![k].c =
                      cblas_sgemm(p.TransA, p.TransB, p.M, p.N, p.K, p.alpha, tmp[k].a, lda,
                                  tmp[k].b, ldb, p.beta, tmp[k].c, p.N)]
    /\ thr' = [thr EXCEPT ![t].pc = "back"]
    /\ UNCHANGED mem
    /\ ConcFrame

\* caffe_cpu_convert of the result back into C; the call returns
GemmBack(t) ==
    /\ thr[t].pc = "back"
    /\ LET p == thr[t].p
       IN  mem' = [mem EXCEPT ![p.C] = ConvertToHalf(p.M * p.N, tmp[TmpSlot(t)].c, mem[p.C])]
    /\ thr' = [thr EXCEPT ![t].pc = "done"]
    /\ UNCHANGED tmp
    /\ ConcFrame

NextConc ==
    \/ \E t \in Threads : LoopStep(t)
    \/ \E t \in Threads : LoopExit(t)
    \/ \E t \in Threads : GemmEnter(t)
    \/ \E t \in Threads : GemmConvert(t)
    \/ \E t \in Threads : GemmCompute(t)
    \/ \E t \in Threads : GemmBack(t)

SpecConc == InitConc /\ [][NextConc]_vars

----------------------------------------------------------------------------
(* Properties *)

Called(op)   == last.op = op
Returned(op) == last.op = op /\ status = "returned"

\* C1: caffe_copy(n, X, X) is a no-op in every execution mode: it returns
\* normally and memory is as it was, also in GPU mode in a CPU_ONLY build.
C1_SelfCopyNoOp ==
    (Called("copy") /\ last.X = last.Y) => (status = "returned" /\ mem = pre_mem)

C1_Witness ==
    /\ Called("copy") /\ last.X = last.Y /\ last.n > 0
    /\ mode = "GPU" /\ cpu_only
    /\ status = "returned"

\* C2: caffe_copy(n, X, Y) with X != Y: in GPU mode in a CPU_ONLY build it ends
\* in a fatal error and memory is as it was (no host copy happened); in CPU mode
\* it returns with the first n elements of Y equal to those X had.
C2_CopyMissingGpuFatal ==
    (Called("copy") /\ last.X # last.Y) =>
        /\ (mode = "GPU" /\ cpu_only) => (status = "fatal" /\ mem = pre_mem)
        /\ (mode = "CPU" /\ last.n >= 0) =>
              /\ status = "returned"
              /\ \A i \in 1..last.n : mem[last.Y][i] = pre_mem[last.X][i]

C2_Witness ==
    /\ Called("copy") /\ last.X # last.Y /\ last.n = BufLen
    /\ mode = "GPU" /\ cpu_only
    /\ status = "fatal"
    /\ pre_mem[last.X] # pre_mem[last.Y]

CountOps == {"copy", "set", "add_scalar", "scal", "axpy", "axpby", "scale", "add", "sub",
             "mul", "sqr", "abs", "dot", "asum", "uniform", "gaussian", "bernoulli"}

\* C3: every operation that takes an element count, called with a negative
\* count, fails at once (fatal) with no buffer element written and nothing
\* drawn; it never returns normally.
C3_NegativeCountFails ==
    (last.op \in CountOps /\ last.n < 0) =>
        (status = "fatal" /\ mem = pre_mem /\ raw = pre_raw /\ rng = pre_rng)

Malformed ==
    \/ Called("uniform")   /\ (last.a > last.b \/ last.r = Null)
    \/ Called("gaussian")  /\ (last.sigma <= 0 \/ last.r = Null)
    \/ Called("bernoulli") /\ (last.p2 < 0 \/ last.p2 > 2 \/ last.r = Null)

\* C4: a sampler called with malformed arguments (a > b, sigma <= 0, p outside
\* [0, 1], null output) fails before any computation: the generator state and
\* every buffer are as they were.
C4_MalformedSamplerFails ==
    Malformed => (status = "fatal" /\ rng = pre_rng /\ mem = pre_mem)

C4_Witness ==
    /\ Called("gaussian") /\ last.sigma = 0 /\ last.n > 0 /\ last.r # Null
    /\ status = "fatal"
    /\ rng = pre_rng

\* alpha * op(A) * op(B) + beta * C at row i, column j (0-based), A, B, C the
\* float values of the buffers before the call, A stored row-major as M x K
\* (K x M when transposed) and B as K x N (N x K when transposed)
GemmRef(p, i, j) ==
    LET A == pre_mem[p.A]
        B == pre_mem[p.B]
        opA(k) == IF p.TransA = "NoTrans" THEN A[i * p.K + k + 1] ELSE A[k * p.M + i + 1]
        opB(k) == IF p.TransB = "NoTrans" THEN B[k * p.N + j + 1] ELSE B[j * p.K + k + 1]
    IN  p.alpha * SumTo([k \in 1..p.K |-> ToFloat(opA(k - 1)) * ToFloat(opB(k - 1))], 0, p.K)
        + p.beta * ToFloat(pre_mem[p.C][i * p.N + j + 1])

\* alpha * op(A) * x + beta * y at index i (0-based), A stored row-major as M x N
GemvRef(p, i) ==
    LET A == pre_mem[p.A]
        x == pre_mem[p.x]
        row(j) == IF p.TransA = "NoTrans" THEN A[i * p.N + j + 1] ELSE A[j * p.N + i + 1]
        lx == IF p.TransA = "NoTrans" THEN p.N ELSE p.M
    IN  p.alpha * SumTo([j \in 1..lx |-> ToFloat(row(j - 1)) * ToFloat(x[j])], 0, lx)
        + p.beta * ToFloat(pre_mem[p.y][i + 1])

\* C5: for positive dimensions the reduced-precision gemm leaves in C the half
\* conversion of alpha*op(A)*op(B) + beta*C_old, which is the half conversion of
\* what the native path computes on the float values of the same buffers; the
\* rest of memory is untouched.  Likewise gemv with y.
C5_GemmMatchesNative ==
    /\ (Called("gemm") /\ last.M > 0 /\ last.N > 0 /\ last.K > 0) =>
          LET p == last
              native == caffe_cpu_gemm_float(p.TransA, p.TransB, p.M, p.N, p.K, p.alpha,
                            ConvertToFloat(p.M * p.K, pre_mem[p.A]),
                            ConvertToFloat(p.K * p.N, pre_mem[p.B]), p.beta,
                            ConvertToFloat(p.M * p.N, pre_mem[p.C]))
          IN  /\ status = "returned"
              /\ \A i \in 0..(p.M - 1), j \in 0..(p.N - 1) :
                    /\ mem[p.C][i * p.N + j + 1] = ToHalf(GemmRef(p, i, j))
                    /\ mem[p.C][i * p.N + j + 1] = ToHalf(native[i * p.N + j + 1])
              /\ \A e \in (p.M * p.N + 1)..BufLen : mem[p.C][e] = pre_mem[p.C][e]
              /\ mem[p.A] = pre_mem[p.A] /\ mem[p.B] = pre_mem[p.B]
    /\ (Called("gemv") /\ last.M > 0 /\ last.N > 0) =>
          LET p == last
              ly == IF p.TransA = "NoTrans" THEN p.M ELSE p.N
              lx == IF p.TransA = "NoTrans" THEN p.N ELSE p.M
              native == caffe_cpu_gemv_float(p.TransA, p.M, p.N, p.alpha,
                            ConvertToFloat(p.M * p.N, pre_mem[p.A]),
                            ConvertToFloat(lx, pre_mem[p.x]), p.beta,
                            ConvertToFloat(ly, pre_mem[p.y]))
          IN  /\ status = "returned"
              /\ \A i \in 0..(ly - 1) :
                    /\ mem[p.y][i + 1] = ToHalf(GemvRef(p, i))
                    /\ mem[p.y][i + 1] = ToHalf(native[i + 1])
              /\ \A e \in (ly + 1)..BufLen : mem[p.y][e] = pre_mem[p.y][e]
              /\ mem[p.A] = pre_mem[p.A] /\ mem[p.x] = pre_mem[p.x]

\* a gemm that accumulates into a nonzero C, transposes A and has to round
C5_Witness ==
    /\ Returned("gemm")
    /\ last.M = MaxDim /\ last.N = MaxDim /\ last.K = MaxDim
    /\ last.TransA = "Trans" /\ last.TransB = "NoTrans"
    /\ last.alpha = 2 /\ last.beta = -1
    /\ \E i \in 0..(last.M - 1), j \in 0..(last.N - 1) :
          /\ pre_mem[last.C][i * last.N + j + 1] # 0
          /\ ~IsHalf(GemmRef(last, i, j))
    /\ mem # pre_mem

\* C6: the reduced-precision gemm with M <= 0 or N <= 0 or K <= 0, and gemv with
\* M <= 0 or N <= 0, return normally and leave every buffer as it was.
C6_DegenerateDimsNoOp ==
    /\ (Called("gemm") /\ (last.M <= 0 \/ last.N <= 0 \/ last.K <= 0)) =>
          (status = "returned" /\ mem = pre_mem)
    /\ (Called("gemv") /\ (last.M <= 0 \/ last.N <= 0)) =>
          (status = "returned" /\ mem = pre_mem)

C6_Witness ==
    /\ Returned("gemv")
    /\ last.M = MaxDim /\ last.N = 0 /\ last.TransA = "NoTrans"
    /\ last.alpha = 2 /\ last.beta = 0
    /\ \E i \in 1..MaxDim : pre_mem[last.y][i] # 0
    /\ mem = pre_mem

\* C7 as claimed: after caffe_rng_uniform(n, a, b, r) with n >= 0 and a <= b
\* returns, every written element satisfies a <= r[i] <= b, whatever the
\* storage type.
C7_UniformWithinBounds ==
    (Returned("uniform") /\ last.n >= 0 /\ last.a <= last.b) =>
        \A i \in 1..last.n : last.a <= mem[last.r][i] /\ mem[last.r][i] <= last.b

\* C7 as amended: after caffe_rng_uniform(n, a, b, r) with n >= 0 and a <= b
\* returns, every written element is the storage-type conversion of a
\* compute-type value of [a, b], b included; so a <= r[i] <= b for a native
\* storage type, and Get<half>(a) <= r[i] <= Get<half>(b) for half.
C7_UniformWithinConvertedBounds ==
    (Returned("uniform") /\ last.n >= 0 /\ last.a <= last.b) =>
        \A i \in 1..last.n :
            /\ \E v \in last.a..last.b : mem[last.r][i] = Get(last.dt, v)
            /\ Get(last.dt, last.a) <= mem[last.r][i]
            /\ mem[last.r][i] <= Get(last.dt, last.b)
            /\ last.dt = "float" => (last.a <= mem[last.r][i] /\ mem[last.r][i] <= last.b)

\* a half buffer filled from [9, 10]: the sample 9 was written as 8, below a,
\* and the upper bound b itself was written too
C7_Witness ==
    /\ Returned("uniform") /\ last.dt = "half"
    /\ last.a = 9 /\ last.b = 10 /\ last.n = BufLen
    /\ \E i \in 1..last.n : mem[last.r][i] = 8
    /\ \E i \in 1..last.n : mem[last.r][i] = 10

\* C8: caffe_set(n, 0, Y) with n >= 0 leaves Y as the per-element store loop
\* would: each of the first n elements is the representation of the storage
\* type's zero, every later element is as it was; for every storage type.
C8_SetZeroMatchesLoop ==
    (Called("set") /\ last.alpha = 0 /\ last.n >= 0) =>
        /\ status = "returned"
        /\ raw.dt = last.dt
        /\ raw.bytes = SetLoop(pre_raw.bytes, last.dt, last.n, 0, 0)
        /\ \A i \in 0..(last.n - 1) :
              ElemBytes(raw.bytes, last.dt, i) = Encode(last.dt, Get(last.dt, 0))
        /\ \A i \in last.n..(BufLen - 1) :
              ElemBytes(raw.bytes, last.dt, i) = ElemBytes(pre_raw.bytes, last.dt, i)

C8_Witness ==
    /\ Returned("set") /\ last.alpha = 0 /\ last.dt = "double"
    /\ last.n = BufLen - 1
    /\ raw # pre_raw
    /\ ElemBytes(raw.bytes, "double", BufLen - 1) # Encode("double", 0)

\* the draws a call makes from the shared generator
Draws ==
    CASE last.op \in {"uniform", "gaussian", "bernoulli"} ->
             IF status = "returned" THEN last.n ELSE 0
      [] last.op = "rand" -> 1
      [] OTHER -> 0

\* C9: the shared generator is never reseeded or replaced: a call leaves it in
\* the state its own draws lead to from the state it found, and a call that is
\* not a sampling operation leaves it as it found it.
C9_GeneratorOnlyDrawnFrom ==
    /\ rng = Advance(pre_rng, Draws)
    /\ last.op \notin {"uniform", "gaussian", "bernoulli", "rand"} => rng = pre_rng

C9_Witness ==
    /\ Returned("uniform") /\ last.n = BufLen
    /\ rng # pre_rng
    /\ rng = Advance(pre_rng, BufLen)

AllDone == \A t \in Threads : thr[t].pc = "done"

\* C10: two non-sampling calls on different threads, neither writing a buffer
\* the other reads or writes, end under every interleaving of their steps with
\* the memory that running one call after the other gives, in either order.
C10_InterleavingsAgree ==
    (thr # NoThr /\ AllDone) =>
        /\ mem = RunCall(RunCall(pre_mem, thr[1].p), thr[2].p)
        /\ mem = RunCall(RunCall(pre_mem, thr[2].p), thr[1].p)

\* two reduced-precision gemms that read the same buffer, both finished, each
\* having changed its own C
C10_Witness ==
    /\ thr # NoThr /\ AllDone
    /\ thr[1].p.op = "gemm" /\ thr[2].p.op = "gemm"
    /\ thr[1].p.A = thr[2].p.A
    /\ thr[1].p.TransA # thr[2].p.TransA
    /\ mem[thr[1].p.C] # pre_mem[thr[1].p.C]
    /\ mem[thr[2].p.C] # pre_mem[thr[2].p.C]

====
